---- MODULE Spec2Model ----
(***************************************************************************)
(* Radar de Contratos (src/app.py): a Streamlit page that reads a          *)
(* relational store, summarises employee evaluations per contract for one  *)
(* calendar month, classifies and sorts the contracts, and lists the       *)
(* evaluations of one selected contract.                                   *)
(*                                                                         *)
(* Dates are triples <<year, month, day>>.  Scores are exact rationals     *)
(* [nulo, num, den] in lowest terms (SQL FLOAT / Python float rounding is  *)
(* not modelled); the threshold is an integer number of tenths, as the     *)
(* slider of line 111 moves in steps of 0.1.                               *)
(***************************************************************************)
EXTENDS Integers, Sequences, FiniteSets

VARIABLES
    Contratos,   \* table Contratos: Id -> [IsAtivo, EmpresaId]
    Pec,         \* table ProjetoEmpresaColaboradores: sequence of rows
    Aval,        \* table AvaliacaoColaboradores: sequence of rows
    mes,         \* the Timestamp chosen in the "Mês" selectbox (line 109)
    LIMIAR,      \* the slider value, in tenths (line 111)
    escolha,     \* what the user picked in the contract selectbox, or Nenhum
    pc,          \* position of the script run
    janela,      \* (d_ini, d_fim) bound to the last query
    df,          \* the report returned by fetch_resumo (line 113)
    cid,         \* value returned by the contract selectbox (line 138)
    detal,       \* the rows returned by fetch_detalhes (line 146)
    nResumo,     \* summary queries sent to the store in this script run
    nDetalhes    \* detail queries sent to the store in this script run

vars == <<Contratos, Pec, Aval, mes, LIMIAR, escolha, pc, janela, df, cid,
          detal, nResumo, nDetalhes>>

store == <<Contratos, Pec, Aval>>

-----------------------------------------------------------------------------
(* Bounds of the model *)

MaxPec == 2          \* rows of ProjetoEmpresaColaboradores
MaxAval == 2         \* rows of AvaliacaoColaboradores
ContratoIds == {0, 1}
ColaboradorIds == {1, 2}
EmpresaIds == {1}
NotasTecnico == {0, 3}   \* values of the sub-score Tecnico
NotasOutras == {3}       \* values of Comunicacao and of Comprometimento
Limiares == {30, 40} \* slider positions, in tenths
Hoje == <<2024, 3, 15>>          \* pd.Timestamp.today()
Anos == {2023, 2024}             \* years of the dates given to interval_month

Nenhum == -1         \* Python None where a contract id is expected
SemJanela == <<>>    \* no query parameters bound yet

-----------------------------------------------------------------------------
(* Calendar *)

Bissexto(a) == (a % 4 = 0 /\ a % 100 # 0) \/ a % 400 = 0

DiasNoMes(a, m) ==
    IF m = 2 THEN (IF Bissexto(a) THEN 29 ELSE 28)
    ELSE IF m \in {4, 6, 9, 11} THEN 30 ELSE 31

Datas == {<<a, m, d>> \in Anos \X (1..12) \X (1..31) : d <= DiasNoMes(a, m)}

DataLeq(x, y) ==
    \/ x[1] < y[1]
    \/ x[1] = y[1] /\ x[2] < y[2]
    \/ x[1] = y[1] /\ x[2] = y[2] /\ x[3] <= y[3]

\* month.replace(day=1)
ReplaceDia1(t) == <<t[1], t[2], 1>>

\* month + relativedelta(months=1): next month, the day clipped to its length
MaisUmMes(t) ==
    LET a == IF t[2] = 12 THEN t[1] + 1 ELSE t[1]
        m == IF t[2] = 12 THEN 1 ELSE t[2] + 1
        u == DiasNoMes(a, m)
    IN  <<a, m, IF t[3] > u THEN u ELSE t[3]>>

\* t - pd.Timedelta(days=1)
MenosUmDia(t) ==
    IF t[3] > 1 THEN <<t[1], t[2], t[3] - 1>>
    ELSE IF t[2] > 1 THEN <<t[1], t[2] - 1, DiasNoMes(t[1], t[2] - 1)>>
    ELSE <<t[1] - 1, 12, 31>>

interval_month(month) ==
    LET ini == ReplaceDia1(month)
        fim == MenosUmDia(MaisUmMes(month))
    IN  <<ini, fim>>

\* t - relativedelta(months=1) on a first-of-month timestamp
MesAnterior(t) == IF t[2] = 1 THEN <<t[1] - 1, 12, 1>> ELSE <<t[1], t[2] - 1, 1>>


\* pd.date_range(end=today, periods=24, freq="MS")[::-1]: month starts, most
\* recent first; the model keeps the two most recent of the 24
MesInicio(t) == <<t[1], t[2], 1>>
meses == <<MesInicio(Hoje), MesAnterior(MesInicio(Hoje))>>

-----------------------------------------------------------------------------
(* Scores *)

RECURSIVE MDC(_, _)
MDC(a, b) == IF b = 0 THEN a ELSE MDC(b, a % b)

NULL == [nulo |-> TRUE, num |-> 0, den |-> 1]

\* the number n/d, d > 0, in lowest terms
Frac(n, d) ==
    LET g == MDC(n, d) IN [nulo |-> FALSE, num |-> n \div g, den |-> d \div g]

\* a < b for two numbers
Menor(a, b) == a.num * b.den < b.num * a.den

\* a + b for two numbers
Soma(a, b) == Frac(a.num * b.den + b.num * a.den, a.den * b.den)

\* a < l/10, the threshold l being in tenths
AbaixoDe(a, l) == a.num * 10 < l * a.den

-----------------------------------------------------------------------------
(* The store *)

PecRows == [ContratoId : ContratoIds, ColaboradorId : ColaboradorIds,
            Ativo : BOOLEAN]

\* the evaluations are dated on the first day of the newest month: inside the
\* window of that month, one day past the window of the month before
Periodos == {MesInicio(Hoje)}

AvalRows == [ColaboradorId : ColaboradorIds, ContratoId : ContratoIds,
             Periodo : Periodos, Tecnico : NotasTecnico,
             Comunicacao : NotasOutras, Comprometimento : NotasOutras]

SeqAte(S, n) == UNION {[1..k -> S] : k \in 0..n}

\* Contratos.EmpresaId references Empresas.Id (every contract has its client)
ContratosValidos == [ContratoIds -> [IsAtivo : BOOLEAN, EmpresaId : EmpresaIds]]

\* (CAST(Tecnico AS FLOAT)+CAST(Comunicacao AS FLOAT)+CAST(Comprometimento AS FLOAT))/3.0,
\* before the division
Soma3(ac) == ac.Tecnico + ac.Comunicacao + ac.Comprometimento

\* ac.Periodo BETWEEN @ini AND @fim
Between(p, ini, fim) == DataLeq(ini, p) /\ DataLeq(p, fim)

RECURSIVE SomaInt(_, _)
SomaInt(f, S) ==
    IF S = {} THEN 0
    ELSE LET x == CHOOSE y \in S : TRUE IN f[x] + SomaInt(f, S \ {x})

\* the rows of AvaliacaoColaboradores the CTE "notas" groups under collaborator k
AvalNaJanela(k, ini, fim) ==
    {j \in 1..Len(Aval) : /\ Aval[j].ColaboradorId = k
                          /\ Between(Aval[j].Periodo, ini, fim)}

\* NotaDoColaborador with the WHERE of line 25 left out
NotaDoColaboradorSemJanela(k, ini, fim) ==
    LET J == {j \in 1..Len(Aval) : Aval[j].ColaboradorId = k}
    IN  IF J = {} THEN NULL
        ELSE Frac(SomaInt([j \in J |-> Soma3(Aval[j])], J), 3 * Cardinality(J))

\* notas.NotaMedia of collaborator k; NULL stands for "no row in notas", which
\* is what the LEFT JOIN of line 40 turns it into
NotaDoColaborador(k, ini, fim) ==
    LET J == AvalNaJanela(k, ini, fim)
    IN  IF J = {} THEN NULL
        ELSE Frac(SomaInt([j \in J |-> Soma3(Aval[j])], J), 3 * Cardinality(J))


-----------------------------------------------------------------------------
(* SQL_RESUMO *)

\* LinhasJuntadas with "AND pec.Ativo = 1" left out
LinhasJuntadasSemAtivo(c) ==
    {i \in 1..Len(Pec) : /\ Contratos[c].IsAtivo
                         /\ Contratos[c].EmpresaId \in EmpresaIds
                         /\ Pec[i].ContratoId = c}

\* the rows of ProjetoEmpresaColaboradores that the two inner joins of lines
\* 36-39 keep for contract c: the contract is active, its client exists, the
\* assignment is of this contract and active.  One joined row per such row.
LinhasJuntadas(c) ==
    {i \in 1..Len(Pec) : /\ Contratos[c].IsAtivo
                         /\ Contratos[c].EmpresaId \in EmpresaIds
                         /\ Pec[i].ContratoId = c
                         /\ Pec[i].Ativo}

RECURSIVE SomaFrac(_, _)
SomaFrac(f, S) ==
    IF S = {} THEN Frac(0, 1)
    ELSE LET x == CHOOSE y \in S : TRUE IN Soma(f[x], SomaFrac(f, S \ {x}))

\* MIN(n.NotaMedia) over the joined rows J: NULLs are skipped, NULL if all are
MinNota(n, J) ==
    LET V == {i \in J : ~n[i].nulo}
    IN  IF V = {} THEN NULL
        ELSE LET i == CHOOSE x \in V : \A y \in V : ~Menor(n[y], n[x])
             IN  n[i]

\* AVG(n.NotaMedia) over the joined rows J: NULLs are skipped, NULL if all are
AvgNota(n, J) ==
    LET V == {i \in J : ~n[i].nulo}
    IN  IF V = {} THEN NULL
        ELSE LET t == SomaFrac(n, V)
             IN  Frac(t.num, t.den * Cardinality(V))

\* CASE WHEN n.NotaMedia IS NOT NULL AND n.NotaMedia < :limiar THEN 1 ELSE 0 END
CasoRuim(x, limiar) == IF ~x.nulo /\ AbaixoDe(x, limiar) THEN 1 ELSE 0

\* the row of the group of contract c (GROUP BY c.Id, e.Nome, c.Objeto)
LinhaResumo(c, ini, fim, limiar) ==
    LET J == LinhasJuntadas(c)
        n == [i \in J |-> NotaDoColaborador(Pec[i].ColaboradorId, ini, fim)]
    IN  [ContratoId |-> c,
         Colaboradores |-> Cardinality({Pec[i].ColaboradorId : i \in J}),
         PiorNota |-> MinNota(n, J),
         NotaMedia |-> AvgNota(n, J),
         ColabsRuins |-> SomaInt([i \in J |-> CasoRuim(n[i], limiar)], J)]

\* the contracts that have a group, i.e. at least one joined row
Grupos == {c \in ContratoIds : LinhasJuntadas(c) # {}}

\* all enumerations of a finite set as a sequence
RECURSIVE Ordens(_)
Ordens(S) ==
    IF S = {} THEN {<<>>}
    ELSE UNION {{<<x>> \o t : t \in Ordens(S \ {x})} : x \in S}

\* the result sets SQL_RESUMO may return: it has no ORDER BY, so the groups
\* come in any order
SqlResumo(ini, fim, limiar) ==
    {[k \in 1..Len(o) |-> LinhaResumo(o[k], ini, fim, limiar)] : o \in Ordens(Grupos)}

-----------------------------------------------------------------------------
(* fetch_resumo: classification and sort *)

\* classifica with <= for < at the two limits
classificaLimiteInclusivo(PiorNota, limiar) ==
    IF PiorNota.nulo THEN <<3, "Sem avaliacao">>
    ELSE IF ~AbaixoDe(PiorNota, limiar - 5) /\ PiorNota.num * 10 # (limiar - 5) * PiorNota.den
         THEN (IF ~AbaixoDe(PiorNota, limiar) /\ PiorNota.num * 10 # limiar * PiorNota.den
               THEN <<2, "OK">> ELSE <<1, "Alerta">>)
    ELSE <<0, "Critico">>

classifica(PiorNota, limiar) ==
    IF PiorNota.nulo THEN <<3, "Sem avaliacao">>
    ELSE IF AbaixoDe(PiorNota, limiar - 5) THEN <<0, "Critico">>
    ELSE IF AbaixoDe(PiorNota, limiar) THEN <<1, "Alerta">>
    ELSE <<2, "OK">>

\* df[["Severidade", "Status"]] = df.apply(classifica, axis=1, result_type="expand")
Classificada(r, limiar) ==
    LET k == classifica(r.PiorNota, limiar)
    IN  [ContratoId |-> r.ContratoId, Colaboradores |-> r.Colaboradores,
         PiorNota |-> r.PiorNota, NotaMedia |-> r.NotaMedia,
         ColabsRuins |-> r.ColabsRuins, Severidade |-> k[1], Status |-> k[2]]

\* ascending order of PiorNota with NaN last (na_position="last")
NotaAntes(a, b) == ~a.nulo /\ (b.nulo \/ Menor(a, b))

\* row a sorts strictly before row b under ["Severidade", "PiorNota"]
AntesDe(a, b) ==
    \/ a.Severidade < b.Severidade
    \/ a.Severidade = b.Severidade /\ NotaAntes(a.PiorNota, b.PiorNota)

\* r put into the sequence s behind its first p rows
Insere(r, s, p) == SubSeq(s, 1, p) \o <<r>> \o SubSeq(s, p + 1, Len(s))

\* row r put into the sorted report t behind every row that does not sort after it
InsereNoRelatorio(r, t) ==
    Insere(r, t, Cardinality({k \in 1..Len(t) : ~AntesDe(r, t[k])}))

\* sort_values without inplace=True: the frame keeps the order of the query
sort_values_sem_inplace(s) == s

\* df.sort_values(["Severidade", "PiorNota"], inplace=True): a stable sort
RECURSIVE sort_values(_)
sort_values(s) ==
    IF s = <<>> THEN <<>>
    ELSE InsereNoRelatorio(s[Len(s)], sort_values(SubSeq(s, 1, Len(s) - 1)))

\* lines 78-89 on the query's result rows
ClassificaEOrdena(linhas, limiar) ==
    sort_values([k \in 1..Len(linhas) |-> Classificada(linhas[k], limiar)])


-----------------------------------------------------------------------------
(* SQL_DETALHES *)

\* col.NomeCompleto: collaborators are named by their id, so distinct
\* collaborators have distinct names, ordered like the ids
NomeCompleto(k) == k

\* ParesDetalhes with "AND ac.ContratoId = :cid" left out
ParesDetalhesSemContrato(c, ini, fim) ==
    {p \in (1..Len(Pec)) \X (1..Len(Aval)) :
        /\ Aval[p[2]].ColaboradorId = Pec[p[1]].ColaboradorId
        /\ Between(Aval[p[2]].Periodo, ini, fim)
        /\ Pec[p[1]].ContratoId = c
        /\ Pec[p[1]].Ativo}

\* the pairs (assignment row, evaluation row) the joins and the WHERE keep
ParesDetalhes(c, ini, fim) ==
    {p \in (1..Len(Pec)) \X (1..Len(Aval)) :
        /\ Aval[p[2]].ColaboradorId = Pec[p[1]].ColaboradorId
        /\ Between(Aval[p[2]].Periodo, ini, fim)
        /\ Aval[p[2]].ColaboradorId \in ColaboradorIds
        /\ Pec[p[1]].ContratoId = c
        /\ Aval[p[2]].ContratoId = c
        /\ Pec[p[1]].Ativo}

\* the selected columns of one pair; aval is not a column: it records which
\* row of AvaliacaoColaboradores the line was read from
LinhaDetalhe(p) ==
    LET ac == Aval[p[2]]
    IN  [NomeCompleto |-> NomeCompleto(ac.ColaboradorId),
         Periodo |-> ac.Periodo,
         Nota |-> Frac(Soma3(ac), 3),
         Tecnico |-> ac.Tecnico,
         Comunicacao |-> ac.Comunicacao,
         Comprometimento |-> ac.Comprometimento,
         aval |-> p[2]]

\* ORDER BY col.NomeCompleto, ac.Periodo DESC
AntesDetalhe(a, b) ==
    \/ a.NomeCompleto < b.NomeCompleto
    \/ /\ a.NomeCompleto = b.NomeCompleto
       /\ a.Periodo # b.Periodo
       /\ DataLeq(b.Periodo, a.Periodo)

\* line r put into the sorted lines t behind every line that does not sort after it
InsereNosDetalhes(r, t) ==
    Insere(r, t, Cardinality({k \in 1..Len(t) : ~AntesDetalhe(r, t[k])}))

RECURSIVE OrdenaDetalhes(_)
OrdenaDetalhes(s) ==
    IF s = <<>> THEN <<>>
    ELSE InsereNosDetalhes(s[Len(s)], OrdenaDetalhes(SubSeq(s, 1, Len(s) - 1)))

\* the pairs in store order (assignment row, then evaluation row)
RECURSIVE EmOrdem(_)
EmOrdem(S) ==
    IF S = {} THEN <<>>
    ELSE LET x == CHOOSE y \in S : \A z \in S :
                      y[1] < z[1] \/ (y[1] = z[1] /\ y[2] <= z[2])
         IN  <<x>> \o EmOrdem(S \ {x})

\* the result set of SQL_DETALHES.  Lines of equal name and period are listed
\* in store order: SQL leaves their order open and the page never reads it.
SqlDetalhes(c, ini, fim) ==
    LET o == EmOrdem(ParesDetalhes(c, ini, fim))
    IN  OrdenaDetalhes([k \in 1..Len(o) |-> LinhaDetalhe(o[k])])

-----------------------------------------------------------------------------
(* The page *)

\* Python truth value of a contract id or None (lines 142 and 145)
Truthy(x) == x # Nenhum /\ x # 0

\* list(cid_to_nome.keys()), line 140: the report's contract ids in row order
Opcoes(d) == [k \in 1..Len(d) |-> d[k].ContratoId]

\* line 133
CidDefault(d) == IF d # <<>> THEN d[1].ContratoId ELSE Nenhum

\* line 142: TRUE for index=0, FALSE for index=None
IndexZero(d) == Truthy(CidDefault(d))

\* value of st.selectbox, line 138: the user's pick while it is an option,
\* else the option at index, else None
ValorSelectbox(d, pick) ==
    IF \E k \in 1..Len(d) : d[k].ContratoId = pick THEN pick
    ELSE IF IndexZero(d) THEN Opcoes(d)[1]
    ELSE Nenhum

Parado == pc \in {"fim", "info", "erro"}

\* a widget changed: Streamlit runs the script again from the top
NovaExecucao ==
    /\ pc' = "resumo"
    /\ janela' = SemJanela
    /\ df' = <<>>
    /\ cid' = Nenhum
    /\ detal' = <<>>
    /\ nResumo' = 0
    /\ nDetalhes' = 0
    /\ UNCHANGED store


\* The tables are bags of rows; each bag is listed once, its rows in one fixed
\* order (the order of the rows of a table decides nothing in the queries
\* beyond the order of equal detail lines).  ProjetoEmpresaColaboradores may
\* repeat a row; the stores explored hold at most one evaluation for a
\* collaborator, a contract and a period.
CodPec(r) ==
    4 * r.ContratoId + 2 * (r.ColaboradorId - 1) + (IF r.Ativo THEN 1 ELSE 0)

CodAval(r) ==
    4 * r.ContratoId + 2 * (r.ColaboradorId - 1)
      + (IF r.Periodo = MesInicio(Hoje) THEN 1 ELSE 0)

PecEmOrdem(s) == \A k \in 1..(Len(s) - 1) : CodPec(s[k]) <= CodPec(s[k + 1])

AvalEmOrdem(s) == \A k \in 1..(Len(s) - 1) : CodAval(s[k]) < CodAval(s[k + 1])

\* Both queries reach Contratos and AvaliacaoColaboradores through a row of
\* ProjetoEmpresaColaboradores only, so a contract without assignment rows
\* and an evaluation of a collaborator without assignment rows change no
\* result: such a contract is listed once, as active, and such evaluations
\* are left out.
ContratosDe(p) ==
    {t \in ContratosValidos :
        \A c \in ContratoIds :
            (\A i \in 1..Len(p) : p[i].ContratoId # c) => t[c].IsAtivo}

AvalDe(p) ==
    {s \in SeqAte(AvalRows, MaxAval) :
        /\ AvalEmOrdem(s)
        /\ \A k \in 1..Len(s) :
              \E i \in 1..Len(p) : p[i].ColaboradorId = s[k].ColaboradorId}

\* first page load: newest month, slider at 3.0, nothing picked (lines 108-111)
Init ==
    /\ Pec \in {s \in SeqAte(PecRows, MaxPec) : PecEmOrdem(s)}
    /\ Contratos \in ContratosDe(Pec)
    /\ Aval \in AvalDe(Pec)
    /\ mes = meses[1]
    /\ LIMIAR = 30
    /\ escolha = Nenhum
    /\ pc = "resumo"
    /\ janela = SemJanela
    /\ df = <<>>
    /\ cid = Nenhum
    /\ detal = <<>>
    /\ nResumo = 0
    /\ nDetalhes = 0

\* line 108: another month is chosen
MudaMes(m) ==
    /\ Parado
    /\ m # mes
    /\ mes' = m
    /\ escolha' \in {escolha, Nenhum}
    /\ UNCHANGED LIMIAR
    /\ NovaExecucao

\* line 111: the slider is moved
MudaLimiar(l) ==
    /\ Parado
    /\ l # LIMIAR
    /\ LIMIAR' = l
    /\ escolha' \in {escolha, Nenhum}
    /\ UNCHANGED mes
    /\ NovaExecucao

\* line 138: the user picks a contract among the options shown
SelecionaContrato(k) ==
    /\ Parado
    /\ \E i \in 1..Len(df) : df[i].ContratoId = k
    /\ k # cid
    /\ escolha' = k
    /\ UNCHANGED <<mes, LIMIAR>>
    /\ NovaExecucao

\* fetch_resumo, lines 69-89, the query answering with at least one row
FetchResumoOk ==
    /\ pc = "resumo"
    /\ janela' = interval_month(mes)
    /\ nResumo' = nResumo + 1
    /\ \E linhas \in SqlResumo(janela'[1], janela'[2], LIMIAR) :
          /\ linhas # <<>>
          /\ df' = ClassificaEOrdena(linhas, LIMIAR)
    /\ pc' = "selectbox"
    /\ UNCHANGED <<store, mes, LIMIAR, escolha, cid, detal, nDetalhes>>

\* fetch_resumo, the query answering with no row.  On an empty frame
\* df.apply(..., result_type="expand") gives back a frame with all the
\* columns of df, and pandas refuses the assignment of line 87 to two columns
\* with a ValueError; whether the installed pandas does so is not decided by
\* this repository, so the run either goes on with an empty report or ends.
FetchResumoVazio ==
    /\ pc = "resumo"
    /\ janela' = interval_month(mes)
    /\ nResumo' = nResumo + 1
    /\ <<>> \in SqlResumo(janela'[1], janela'[2], LIMIAR)
    /\ df' = <<>>
    /\ pc' \in {"selectbox", "erro"}
    /\ UNCHANGED <<store, mes, LIMIAR, escolha, cid, detal, nDetalhes>>

\* fetch_resumo, the query failing: the exception ends the script run
FetchResumoFalha ==
    /\ pc = "resumo"
    /\ janela' = interval_month(mes)
    /\ nResumo' = nResumo + 1
    /\ pc' = "erro"
    /\ UNCHANGED <<store, mes, LIMIAR, escolha, df, cid, detal, nDetalhes>>

\* lines 132-145 and 166-167: the contract selectbox and the branch on its value
Selectbox ==
    /\ pc = "selectbox"
    /\ cid' = ValorSelectbox(df, escolha)
    /\ escolha' = IF cid' = escolha THEN escolha ELSE Nenhum
    /\ pc' = IF Truthy(cid') THEN "detalhes" ELSE "info"
    /\ UNCHANGED <<store, mes, LIMIAR, janela, df, detal, nResumo, nDetalhes>>

\* fetch_detalhes, lines 91-99, the query answering
FetchDetalhesOk ==
    /\ pc = "detalhes"
    /\ janela' = interval_month(mes)
    /\ nDetalhes' = nDetalhes + 1
    /\ detal' = SqlDetalhes(cid, janela'[1], janela'[2])
    /\ pc' = "fim"
    /\ UNCHANGED <<store, mes, LIMIAR, escolha, df, cid, nResumo>>

\* FetchDetalhesFalha with the failed query sent once more
FetchDetalhesFalhaRepete ==
    /\ pc = "detalhes"
    /\ nDetalhes < 2
    /\ janela' = interval_month(mes)
    /\ nDetalhes' = nDetalhes + 1
    /\ pc' = "detalhes"
    /\ UNCHANGED <<store, mes, LIMIAR, escolha, df, cid, detal, nResumo>>

\* fetch_detalhes, the query failing: the exception ends the script run
FetchDetalhesFalha ==
    /\ pc = "detalhes"
    /\ janela' = interval_month(mes)
    /\ nDetalhes' = nDetalhes + 1
    /\ pc' = "erro"
    /\ UNCHANGED <<store, mes, LIMIAR, escolha, df, cid, detal, nResumo>>

Next ==
    \/ \E k \in 1..Len(meses) : MudaMes(meses[k])
    \/ \E l \in Limiares : MudaLimiar(l)
    \/ \E k \in ContratoIds : SelecionaContrato(k)
    \/ FetchResumoOk
    \/ FetchResumoVazio
    \/ FetchResumoFalha
    \/ Selectbox
    \/ FetchDetalhesOk
    \/ FetchDetalhesFalha

Spec == Init /\ [][Next]_vars

-----------------------------------------------------------------------------
(* interval_month on any date *)

InitInterval ==
    /\ Contratos = [c \in ContratoIds |-> [IsAtivo |-> FALSE, EmpresaId |-> 1]]
    /\ Pec = <<>>
    /\ Aval = <<>>
    /\ mes \in Datas
    /\ LIMIAR = 30
    /\ escolha = Nenhum
    /\ pc = "interval_month"
    /\ janela = SemJanela
    /\ df = <<>>
    /\ cid = Nenhum
    /\ detal = <<>>
    /\ nResumo = 0
    /\ nDetalhes = 0

ChamaIntervalMonth ==
    /\ pc = "interval_month"
    /\ janela' = interval_month(mes)
    /\ pc' = "retornou"
    /\ UNCHANGED <<store, mes, LIMIAR, escolha, df, cid, detal, nResumo, nDetalhes>>

NextInterval == ChamaIntervalMonth

SpecInterval == InitInterval /\ [][NextInterval]_vars


-----------------------------------------------------------------------------
(* Properties *)

\* the script run got a report back from fetch_resumo
Relatorio == pc \in {"selectbox", "detalhes", "fim", "info"} \/ (pc = "erro" /\ nDetalhes > 0)

Linhas(d) == {d[k] : k \in 1..Len(d)}

\* the collaborators with an active assignment to contract c
Atribuidos(c) ==
    {k \in ColaboradorIds :
        \E i \in 1..Len(Pec) : Pec[i].ContratoId = c /\ Pec[i].ColaboradorId = k /\ Pec[i].Ativo}

\* first and last day of the month of date t
PrimeiroDia(t) == <<t[1], t[2], 1>>
UltimoDia(t) == <<t[1], t[2], DiasNoMes(t[1], t[2])>>

\* a <= b, a null being greater than any number
MenorOuIgualNuloMaior(a, b) == b.nulo \/ (~a.nulo /\ a.num * b.den <= b.num * a.den)

\* C1: for every date d, interval_month(d) is (day 1 of d's month, last day of
\* d's month), whatever the day of d.
C1_IntervalMonth ==
    pc = "retornou" => janela = <<PrimeiroDia(mes), UltimoDia(mes)>>

\* C2: every row of the report is classified by its worst score w and the
\* threshold t as: rank 3 if w is null; else rank 0 if w < t - 0.5; else rank 1
\* if w < t; else rank 2 (so w = t - 0.5 is rank 1 and w = t is rank 2).
C2_Classificacao ==
    \A r \in Linhas(df) :
        LET w == r.PiorNota
        IN  /\ w.nulo => r.Severidade = 3 /\ r.Status = "Sem avaliacao"
            /\ ~w.nulo /\ 10 * w.num < (LIMIAR - 5) * w.den
                  => r.Severidade = 0 /\ r.Status = "Critico"
            /\ ~w.nulo /\ 10 * w.num >= (LIMIAR - 5) * w.den /\ 10 * w.num < LIMIAR * w.den
                  => r.Severidade = 1 /\ r.Status = "Alerta"
            /\ ~w.nulo /\ 10 * w.num >= LIMIAR * w.den
                  => r.Severidade = 2 /\ r.Status = "OK"

\* a report holding a row whose worst score is exactly t - 0.5, ranked 1, and
\* a row without evaluation
C2_Witness ==
    /\ \E r \in Linhas(df) :
          ~r.PiorNota.nulo /\ 10 * r.PiorNota.num = (LIMIAR - 5) * r.PiorNota.den
          /\ r.Severidade = 1
    /\ \E r \in Linhas(df) : r.PiorNota.nulo /\ r.Severidade = 3

\* C3: adjacent rows (a, b) of a report have a.rank < b.rank, or the same rank
\* and a.PiorNota <= b.PiorNota with null greater than any number; a null
\* PiorNota occurs only in rows of rank 3.
C3_Ordenacao ==
    /\ \A k \in 1..(Len(df) - 1) :
          \/ df[k].Severidade < df[k + 1].Severidade
          \/ /\ df[k].Severidade = df[k + 1].Severidade
             /\ MenorOuIgualNuloMaior(df[k].PiorNota, df[k + 1].PiorNota)
    /\ \A r \in Linhas(df) : r.PiorNota.nulo => r.Severidade = 3

\* a report of two rows of the same rank and different worst scores, the
\* contract with the larger id first
C3_Witness ==
    /\ Len(df) = 2
    /\ df[1].Severidade = df[2].Severidade
    /\ ~df[2].PiorNota.nulo
    /\ df[1].PiorNota # df[2].PiorNota
    /\ df[1].ContratoId > df[2].ContratoId

\* C4: every line fetch_detalhes returns for contract cid has its period
\* inside the window and was read from an evaluation recorded against cid.
C4_EscopoDetalhes ==
    \A r \in Linhas(detal) :
        /\ Between(r.Periodo, janela[1], janela[2])
        /\ janela = <<PrimeiroDia(mes), UltimoDia(mes)>>
        /\ Aval[r.aval].ContratoId = cid

\* detail lines were returned while an evaluation of a collaborator actively
\* assigned to cid, inside the window, recorded against another contract, was
\* left out
C4_Witness ==
    /\ pc = "fim"
    /\ detal # <<>>
    /\ \E j \in 1..Len(Aval) :
          /\ Aval[j].ColaboradorId \in Atribuidos(cid)
          /\ Aval[j].ContratoId # cid
          /\ Between(Aval[j].Periodo, janela[1], janela[2])

\* C5: the ColabsRuins of every summary row is the number of collaborators
\* actively assigned to the contract whose average over the window is
\* non-null and below the threshold, each collaborator counted once.
C5_ColabsRuins ==
    Relatorio =>
        \A r \in Linhas(df) :
            r.ColabsRuins =
                Cardinality({k \in Atribuidos(r.ContratoId) :
                    LET n == NotaDoColaborador(k, PrimeiroDia(mes), UltimoDia(mes))
                    IN  ~n.nulo /\ 10 * n.num < LIMIAR * n.den})

\* the contracts that are active and have an active assignment
Participantes == {c \in ContratoIds : Contratos[c].IsAtivo /\ Atribuidos(c) # {}}

\* the evaluations inside the month of mes of the collaborators actively
\* assigned to c
AvaliacoesDosAtribuidos(c) ==
    {j \in 1..Len(Aval) :
        /\ Aval[j].ColaboradorId \in Atribuidos(c)
        /\ DataLeq(PrimeiroDia(mes), Aval[j].Periodo)
        /\ DataLeq(Aval[j].Periodo, UltimoDia(mes))}

\* C6: an active contract with an active assignment whose assigned
\* collaborators have no evaluation inside the window has a summary row with
\* PiorNota null, NotaMedia null, ColabsRuins 0, Colaboradores >= 1, rank 3.
C6_SemAvaliacao ==
    Relatorio =>
        \A c \in Participantes :
            AvaliacoesDosAtribuidos(c) = {} =>
                \E r \in Linhas(df) :
                    /\ r.ContratoId = c
                    /\ r.PiorNota = NULL
                    /\ r.NotaMedia = NULL
                    /\ r.ColabsRuins = 0
                    /\ r.Colaboradores >= 1
                    /\ r.Severidade = 3

\* a report of two rows without evaluation, the collaborators of both
\* contracts having been evaluated one day after the window
C6_Witness ==
    /\ Relatorio
    /\ Len(df) = 2
    /\ \A c \in Participantes :
          /\ AvaliacoesDosAtribuidos(c) = {}
          /\ \E j \in 1..Len(Aval) :
                /\ Aval[j].ColaboradorId \in Atribuidos(c)
                /\ Aval[j].Periodo = MaisUmMes(PrimeiroDia(mes))

\* the averages over the window of the collaborators actively assigned to c
NotasDosAtribuidos(c) ==
    {n \in {NotaDoColaborador(k, PrimeiroDia(mes), UltimoDia(mes)) : k \in Atribuidos(c)} :
        ~n.nulo}

\* C7: the report has exactly one row for each active contract with an active
\* assignment and no other row; Colaboradores and the scores of a row come
\* from the active assignments only.
C7_Participantes ==
    Relatorio =>
        /\ {r.ContratoId : r \in Linhas(df)} = Participantes
        /\ Len(df) = Cardinality(Participantes)
        /\ \A r \in Linhas(df) :
              /\ r.Colaboradores = Cardinality(Atribuidos(r.ContratoId))
              /\ r.PiorNota.nulo <=> NotasDosAtribuidos(r.ContratoId) = {}
              /\ r.NotaMedia.nulo <=> NotasDosAtribuidos(r.ContratoId) = {}
              /\ ~r.PiorNota.nulo =>
                    /\ r.PiorNota \in NotasDosAtribuidos(r.ContratoId)
                    /\ \A n \in NotasDosAtribuidos(r.ContratoId) :
                          MenorOuIgualNuloMaior(r.PiorNota, n)
                    /\ MenorOuIgualNuloMaior(r.PiorNota, r.NotaMedia)

\* a report of one row while the other contract has an active assignment but
\* is inactive, or has only an inactive assignment of an evaluated collaborator
C7_Witness ==
    /\ Relatorio
    /\ Len(df) = 1
    /\ \E i \in 1..Len(Pec) :
          /\ Pec[i].ContratoId # df[1].ContratoId
          /\ AvalNaJanela(Pec[i].ColaboradorId, PrimeiroDia(mes), UltimoDia(mes)) # {}

\* C8 as stated: when a script run has ended, exactly one query was sent.
C8_UmaConsultaPorInteracao == Parado => nResumo + nDetalhes = 1

\* C8 amended: a script run sends the summary query once, and then the detail
\* query once exactly when the selectbox returned a contract id that is
\* truthy; no query is sent again after it failed.
C8_ConsultasPorExecucao ==
    /\ nResumo <= 1
    /\ nDetalhes <= 1
    /\ Parado => nResumo = 1
    /\ pc = "fim" => nDetalhes = 1 /\ Truthy(cid)
    /\ pc = "info" => nDetalhes = 0 /\ ~Truthy(cid)
    /\ pc = "detalhes" => nResumo = 1 /\ nDetalhes = 0
    /\ nDetalhes = 1 => nResumo = 1

\* a run started by the user picking a contract ended after two queries
C8_Witness == pc = "fim" /\ escolha # Nenhum /\ nResumo = 1 /\ nDetalhes = 1

\* C9: with nothing picked by the user, the selectbox returns the ContratoId
\* of the first row of a non-empty report and the detail query is sent for
\* it; it returns None exactly when the report is empty; "Nenhum contrato
\* para exibir" is shown only when the report is empty.
C9_SelecaoPadrao ==
    /\ pc \in {"detalhes", "info"} /\ escolha = Nenhum =>
          /\ df # <<>> => cid = df[1].ContratoId /\ pc = "detalhes"
          /\ df = <<>> <=> cid = Nenhum
    /\ pc = "info" => df = <<>>

\* C10: if the summary row of the selected contract has a non-null PiorNota,
\* fetch_detalhes for that contract and the same window returns a line.
C10_ResumoEDetalhes ==
    pc = "fim" =>
        \A r \in Linhas(df) :
            r.ContratoId = cid /\ ~r.PiorNota.nulo => detal # <<>>

=============================================================================
